---- MODULE Spec2Model ----
(***************************************************************************)
(* TaskQueueManager (task-queue.js): a client-side queue of generation     *)
(* tasks, executed one after another by async sweeps (runAll) or single    *)
(* runs (runTask), with automatic retry, pause/resume/stop, drag-and-drop  *)
(* reordering and persistence of the list to localStorage.                 *)
(*                                                                         *)
(* JavaScript runs one handler at a time: every action below is one        *)
(* synchronous stretch of code, from a call (or the resumption of an       *)
(* await) to the next await on a timer or on the network.                  *)
(***************************************************************************)
EXTENDS Integers, Sequences, FiniteSets, TLC

VARIABLES
    queue,             \* this.queue: the list of task objects (references)
    tasks,             \* the task objects, by reference
    store,             \* localStorage['xobi_task_queue']
    quota,             \* whether localStorage.setItem succeeds ("ok") or throws
                       \* ("exceeded")
    isRunning,         \* this.isRunning
    isPaused,          \* this.isPaused
    currentTaskIndex,  \* this.currentTaskIndex
    procs,             \* the pending async calls of runAll / runTask
    nextId,            \* the next value of Date.now() + Math.random()
    last,              \* the call of the API the last step was, and what it returned
    calls,             \* the calls of the API made so far
    shown,             \* the summary showSummary() has shown in the last step
    hist               \* history, read by no action:
                       \* pausing: the sweeps that were executing a task when
                       \*   pauseQueue() was called, with no resumeQueue() since
                       \* stopped: the sweeps that were executing a task when
                       \*   stopQueue() was called, with no runAll() or
                       \*   runTask() since
                       \* observed: a sweep has ended on seeing isPaused, before
                       \*   an eligible task, and the queue was not run, resumed,
                       \*   stopped or cleared since
                       \* cleared: clearQueue() has emptied the list of a running
                       \*   queue, and no list was added to, imported or loaded
                       \*   since
                       \* late: the tasks added while a sweep was in progress,
                       \*   until no sweep is left
                       \* resumed: the last step was a resumeQueue() that found
                       \*   the queue running and paused
                       \* exec: for each call in progress, the Executor
                       \*   invocations it has made for its task and the
                       \*   retryCount of the task at the first of them

vars == <<queue, tasks, store, quota, isRunning, isPaused, currentTaskIndex, procs, nextId,
          last, calls, shown, hist>>

(***************************************************************************)
(* Bounds of the model                                                     *)
(***************************************************************************)
MaxTasks == 3    \* tasks ever created by addTask
MaxProcs == 2    \* async runAll / runTask calls pending at the same time
MaxCalls == 5    \* calls of the API (the resumptions of awaits are not counted)

(***************************************************************************)
(* Program constants                                                       *)
(***************************************************************************)
maxRetries == 3
IdleIndex == -1

Procs == 1..MaxProcs
TaskIds == 1..MaxTasks

KnownTypes == {"generation", "annotation", "modification"}
NoFile == "null"
NoError == [msg |-> "null", attempt |-> 0]
NoData == [kind |-> "null", items |-> <<>>]
NoParams == [referenceImage |-> NoFile, productImage |-> NoFile]
NoCall == [op |-> "none", a |-> 0, b |-> 0, ret |-> "undefined"]
IdleProc == [kind |-> "none", pc |-> "idle", i |-> IdleIndex, task |-> 0]
\* no Executor invocation made
NoAttempts == [n |-> 0, from |-> 0]

NoAlert == [kind |-> "none", completed |-> 0, failed |-> 0, total |-> 0]

(***************************************************************************)
(* Helpers                                                                 *)
(***************************************************************************)
Range(s) == {s[k] : k \in 1..Len(s)}

\* this.queue[i], i counted from 0 as in the source
At(q, i) == q[i + 1]

\* the value of a destructured element that does not exist; no task has
\* this reference
Undefined == 0

\* the index where q.splice(i, ...) starts: counted from the end when i is
\* negative, the length when i is beyond it
SpliceStart(q, i) ==
    IF i < 0 THEN (IF Len(q) + i < 0 THEN 0 ELSE Len(q) + i)
    ELSE IF i > Len(q) THEN Len(q)
    ELSE i

\* q.splice(i, 1): q without its element at index i (q itself when there is
\* no such element)
SpliceOut(q, i) ==
    LET at == SpliceStart(q, i)
    IN  SubSeq(q, 1, at) \o SubSeq(q, at + 2, Len(q))

\* const [task] = q.splice(i, 1): the element removed, undefined when none is
Spliced(q, i) ==
    IF SpliceStart(q, i) < Len(q) THEN At(q, SpliceStart(q, i)) ELSE Undefined

\* q.splice(i, 0, x): x inserted at index i (at the end when i > length)
SpliceIn(q, i, x) ==
    LET at == SpliceStart(q, i)
    IN  SubSeq(q, 1, at) \o <<x>> \o SubSeq(q, at + 1, Len(q))

\* this.queue.findIndex(t => t.id === taskId), -1 when there is none
RECURSIVE FindFrom(_, _, _, _)
FindFrom(q, ts, taskId, i) ==
    IF i >= Len(q) THEN -1
    ELSE IF ts[At(q, i)].id = taskId THEN i
    ELSE FindFrom(q, ts, taskId, i + 1)
FindIndex(q, ts, taskId) == FindFrom(q, ts, taskId, 0)

\* the objects still referenced: by the list, or by a pending executeTask
Live(q, ps) == Range(q) \cup {ps[p].task : p \in {x \in Procs : ps[x].task # 0}}
Collect(ts, q, ps) == [r \in Live(q, ps) |-> ts[r]]

\* (mutant) only the reference image is left out
SnapshotKeepsProduct(t) == [t EXCEPT !.params.referenceImage = NoFile]

\* the entry saveToStorage writes for one task
Snapshot(t) == [t EXCEPT !.params.referenceImage = NoFile, !.params.productImage = NoFile]

\* the value saveToStorage passes to setItem: the whole list
QueueData(q, ts) ==
    [kind |-> "array", items |-> [k \in 1..Len(q) |-> Snapshot(ts[q[k]])]]

\* (mutant) a write that fails empties the slot
SaveToStorageWipes(q, ts) ==
    IF quota = "ok" THEN QueueData(q, ts) ELSE [kind |-> "null", items |-> <<>>]

\* saveToStorage: the slot after the call, overwritten when setItem succeeds
\* and as it was when setItem throws (the catch block only logs)
SaveToStorage(q, ts) ==
    IF quota = "ok" THEN QueueData(q, ts) ELSE store

\* q.filter(t => t.status === status).length
RECURSIVE CountStatus(_, _, _)
CountStatus(q, ts, status) ==
    IF q = <<>> THEN 0
    ELSE (IF ts[Head(q)].status = status THEN 1 ELSE 0) + CountStatus(Tail(q), ts, status)

\* (mutant) the tasks still pending are counted as the failed ones
ShowSummaryCountsPending(q, ts) ==
    [kind |-> "summary", completed |-> CountStatus(q, ts, "completed"),
     failed |-> CountStatus(q, ts, "pending"), total |-> Len(q)]

\* showSummary: the counts of the message
ShowSummary(q, ts) ==
    [kind |-> "summary", completed |-> CountStatus(q, ts, "completed"),
     failed |-> CountStatus(q, ts, "failed"), total |-> Len(q)]

(***************************************************************************)
(* Initial state: the constructor, on an empty localStorage                *)
(***************************************************************************)
Init ==
    /\ queue = <<>>
    /\ tasks = <<>>
    /\ store = NoData
    /\ quota = "ok"
    /\ isRunning = FALSE
    /\ isPaused = FALSE
    /\ currentTaskIndex = IdleIndex
    /\ procs = [p \in Procs |-> IdleProc]
    /\ nextId = 1
    /\ last = NoCall
    /\ calls = 0
    /\ shown = NoAlert
    /\ hist = [pausing |-> {}, stopped |-> {}, observed |-> FALSE, cleared |-> FALSE,
               late |-> {}, resumed |-> FALSE, exec |-> [p \in Procs |-> NoAttempts]]

\* runAll executes the tasks that are pending or failed
Eligible(t) == t.status = "pending" \/ t.status = "failed"

\* the sweeps in progress
Sweeping == {p \in Procs : procs[p].kind = "runAll"}

\* the sweeps that are executing a task
Executing == {p \in Procs : procs[p].kind = "runAll" /\ procs[p].task # 0}

\* for each call of runAll or runTask, the Executor invocations it has made
\* for the task it executes after this step (n) and the retryCount the task
\* had at the first of them (from)
AttemptsAfter ==
    [p \in Procs |->
        IF procs'[p].pc = "exec"
           /\ (procs[p].pc # "exec" \/ procs'[p].task # procs[p].task)
        THEN IF procs[p].pc = "backoff" /\ procs'[p].task = procs[p].task
             THEN [hist.exec[p] EXCEPT !.n = @ + 1]
             ELSE [n |-> 1, from |-> tasks'[procs'[p].task].retryCount]
        ELSE IF procs'[p].kind # "none" /\ procs'[p].task = procs[p].task
        THEN hist.exec[p]
        ELSE NoAttempts]

\* a step that is the call op(a, b) of the API, returning r
Call(op, a, b, r) ==
    /\ calls < MaxCalls
    /\ calls' = calls + 1
    /\ last' = [op |-> op, a |-> a, b |-> b, ret |-> r]
    /\ quota' = quota
    /\ hist' =
          [pausing |->
              IF op = "pauseQueue" THEN hist.pausing \cup Executing
              ELSE IF op \in {"resumeQueue", "reload"} THEN {}
              ELSE hist.pausing,
           stopped |->
              IF op = "stopQueue" \/ (op = "clearQueue" /\ a = 1 /\ isRunning)
              THEN hist.stopped \cup Executing
              ELSE IF op \in {"runAll", "runTask", "reload"} THEN {}
              ELSE hist.stopped,
           observed |->
              IF op \in {"runAll", "runTask", "resumeQueue", "stopQueue", "clearQueue",
                         "reload"}
              THEN FALSE
              ELSE hist.observed,
           cleared |->
              IF op = "clearQueue" /\ a = 1 /\ isRunning THEN TRUE
              ELSE IF op \in {"addTask", "importQueue", "reload"} THEN FALSE
              ELSE hist.cleared,
           late |->
              IF op = "addTask" /\ Sweeping # {} THEN hist.late \cup {nextId}
              ELSE IF op = "reload" THEN {}
              ELSE hist.late,
           resumed |-> op = "resumeQueue" /\ isRunning /\ isPaused,
           exec |->
              IF op \in {"runAll", "runTask", "resumeQueue"} THEN AttemptsAfter
              ELSE IF op = "reload" THEN [p \in Procs |-> NoAttempts]
              ELSE hist.exec]

\* a step that is the resumption of an await
Resumption ==
    /\ last' = NoCall
    /\ quota' = quota
    /\ hist' =
          [pausing |-> {p \in hist.pausing : procs'[p].kind = "runAll"},
           stopped |-> {p \in hist.stopped : procs'[p].kind = "runAll"},
           observed |->
              \/ hist.observed
              \/ \E p \in Procs :
                    /\ procs[p].kind = "runAll"
                    /\ procs'[p].kind = "none"
                    /\ isPaused
                    /\ \E k \in (procs[p].i + 1)..(Len(queue) - 1) :
                          Eligible(tasks'[At(queue, k)]),
           cleared |-> hist.cleared,
           late |-> IF \E p \in Procs : procs'[p].kind = "runAll" THEN hist.late ELSE {},
           resumed |-> FALSE,
           exec |-> AttemptsAfter]
    /\ UNCHANGED calls

(***************************************************************************)
(* addTask(task)                                                           *)
(***************************************************************************)
\* (mutant) the new task counts one retry already
NewTaskRetried(id, type, params, priority) ==
    [id |-> id, type |-> type, params |-> params, status |-> "pending",
     result |-> "null", error |-> NoError, retryCount |-> 1, priority |-> priority]

NewTask(id, type, params, priority) ==
    [id |-> id, type |-> type, params |-> params, status |-> "pending",
     result |-> "null", error |-> NoError, retryCount |-> 0, priority |-> priority]

\* (mutant) the new task is put in front of the list
AddTaskInFront(type, params, priority) ==
    /\ nextId <= MaxTasks
    /\ LET id == nextId
           ts == [r \in DOMAIN tasks \cup {id} |->
                    IF r = id THEN NewTask(id, type, params, priority) ELSE tasks[r]]
           q  == <<id>> \o queue
       IN  /\ queue' = q
           /\ tasks' = ts
           /\ store' = SaveToStorage(q, ts)
           /\ Call("addTask", 0, 0, ToString(id))
    /\ nextId' = nextId + 1
    /\ shown' = NoAlert
    /\ UNCHANGED <<isRunning, isPaused, currentTaskIndex, procs>>

\* (mutant) the new task is put before the tasks of lower priority
AddTaskByPriority(type, params, priority) ==
    /\ nextId <= MaxTasks
    /\ LET id == nextId
           ts == [r \in DOMAIN tasks \cup {id} |->
                    IF r = id THEN NewTask(id, type, params, priority) ELSE tasks[r]]
           n  == Cardinality({k \in 1..Len(queue) : tasks[queue[k]].priority >= priority})
           q  == SubSeq(queue, 1, n) \o <<id>> \o SubSeq(queue, n + 1, Len(queue))
       IN  /\ queue' = q
           /\ tasks' = ts
           /\ store' = SaveToStorage(q, ts)
           /\ Call("addTask", 0, 0, ToString(id))
    /\ nextId' = nextId + 1
    /\ shown' = NoAlert
    /\ UNCHANGED <<isRunning, isPaused, currentTaskIndex, procs>>

AddTask(type, params, priority) ==
    /\ nextId <= MaxTasks
    /\ LET id == nextId
           ts == [r \in DOMAIN tasks \cup {id} |->
                    IF r = id THEN NewTask(id, type, params, priority) ELSE tasks[r]]
           q  == Append(queue, id)
       IN  /\ queue' = q
           /\ tasks' = ts
           /\ store' = SaveToStorage(q, ts)
           /\ Call("addTask", 0, 0, ToString(id))
    /\ nextId' = nextId + 1
    /\ shown' = NoAlert
    /\ UNCHANGED <<isRunning, isPaused, currentTaskIndex, procs>>

(***************************************************************************)
(* executeTask(task)                                                       *)
(*                                                                         *)
(* The synchronous stretches of executeTask, as functions of the task      *)
(* objects ts, the stored list st, the list q and the task r. Each gives   *)
(* the new objects, the new stored list and where the call now stands:     *)
(* "exec" (awaiting the API), "backoff" (awaiting sleep(2000) before the   *)
(* retry) or "returned".                                                   *)
(***************************************************************************)

\* (mutant) one retry too many
MayRetryOnceMore(t) == t.retryCount <= maxRetries

\* the catch block: retry while retryCount < maxRetries, else failed
\* (mutant) a single retry
MayRetryOnce(t) == t.retryCount < 1

MayRetry(t) == t.retryCount < maxRetries

\* (mutant) the error is recorded only when the task fails for good
OnFailureSilentRetry(ts, st, q, r, msg) ==
    IF MayRetry(ts[r])
    THEN LET n == ts[r].retryCount + 1
             t == [ts[r] EXCEPT !.retryCount = n, !.status = "pending"]
         IN  [tasks |-> [ts EXCEPT ![r] = t], store |-> st, pc |-> "backoff"]
    ELSE LET t  == [ts[r] EXCEPT !.status = "failed",
                                 !.error = [msg |-> msg, attempt |-> 0]]
             tt == [ts EXCEPT ![r] = t]
         IN  [tasks |-> tt, store |-> SaveToStorage(q, tt), pc |-> "returned"]

\* (mutant) the retry is left to a later run: executeTask returns
OnFailureDefersRetry(ts, st, q, r, msg) ==
    IF MayRetry(ts[r])
    THEN LET n == ts[r].retryCount + 1
             t == [ts[r] EXCEPT !.retryCount = n, !.status = "pending",
                                !.error = [msg |-> msg, attempt |-> n]]
             tt == [ts EXCEPT ![r] = t]
         IN  [tasks |-> tt, store |-> SaveToStorage(q, tt), pc |-> "returned"]
    ELSE LET t  == [ts[r] EXCEPT !.status = "failed",
                                 !.error = [msg |-> msg, attempt |-> 0]]
             tt == [ts EXCEPT ![r] = t]
         IN  [tasks |-> tt, store |-> SaveToStorage(q, tt), pc |-> "returned"]

\* the catch block
OnFailure(ts, st, q, r, msg) ==
    IF MayRetry(ts[r])
    THEN LET n == ts[r].retryCount + 1
             t == [ts[r] EXCEPT !.retryCount = n, !.status = "pending",
                                !.error = [msg |-> msg, attempt |-> n]]
         IN  [tasks |-> [ts EXCEPT ![r] = t], store |-> st, pc |-> "backoff"]
    ELSE LET t  == [ts[r] EXCEPT !.status = "failed",
                                 !.error = [msg |-> msg, attempt |-> 0]]
             tt == [ts EXCEPT ![r] = t]
         IN  [tasks |-> tt, store |-> SaveToStorage(q, tt), pc |-> "returned"]

\* (mutant) the task is stored even when it has left the list
OnSuccessReinserts(ts, st, q, r) ==
    LET t  == [ts[r] EXCEPT !.status = "completed", !.result = "result",
                            !.error = NoError]
        tt == [ts EXCEPT ![r] = t]
    IN  [tasks |-> tt,
         store |-> SaveToStorage(IF r \in Range(q) THEN q ELSE Append(q, r), tt),
         pc |-> "returned"]

\* (mutant) the result of a call that returns after stopQueue() is dropped
OnSuccessUnlessStopped(ts, st, q, r) ==
    IF isRunning
    THEN LET t  == [ts[r] EXCEPT !.status = "completed", !.result = "result",
                                 !.error = NoError]
             tt == [ts EXCEPT ![r] = t]
         IN  [tasks |-> tt, store |-> SaveToStorage(q, tt), pc |-> "returned"]
    ELSE [tasks |-> ts, store |-> st, pc |-> "returned"]

\* (mutant) the completed task is not saved
OnSuccessUnsaved(ts, st, q, r) ==
    LET t  == [ts[r] EXCEPT !.status = "completed", !.result = "result",
                            !.error = NoError]
        tt == [ts EXCEPT ![r] = t]
    IN  [tasks |-> tt, store |-> st, pc |-> "returned"]

\* the end of the try block
OnSuccess(ts, st, q, r) ==
    LET t  == [ts[r] EXCEPT !.status = "completed", !.result = "result",
                            !.error = NoError]
        tt == [ts EXCEPT ![r] = t]
    IN  [tasks |-> tt, store |-> SaveToStorage(q, tt), pc |-> "returned"]

\* (mutant) a new execution starts with a new retry budget
ExecStartResets(ts, st, q, r) ==
    LET tt == [ts EXCEPT ![r].status = "processing",
                         ![r].retryCount = IF ts[r].status = "failed" THEN 0
                                           ELSE ts[r].retryCount]
    IN  IF ts[r].type \in KnownTypes
        THEN [tasks |-> tt, store |-> st, pc |-> "exec"]
        ELSE OnFailure(tt, st, q, r, "unknownType")

\* from the entry of executeTask to its first await: an unknown type throws
\* inside the try block, before any await
ExecStart(ts, st, q, r) ==
    LET tt == [ts EXCEPT ![r].status = "processing"]
    IN  IF ts[r].type \in KnownTypes
        THEN [tasks |-> tt, store |-> st, pc |-> "exec"]
        ELSE OnFailure(tt, st, q, r, "unknownType")

(***************************************************************************)
(* The for loop of runAll, from index j to its next await or to its end.   *)
(* paused is this.isPaused, which the stretch itself does not change.      *)
(* Gives the objects, the stored list, where the call stands ("exec",     *)
(* "backoff", "delay" = the sleep(1000) between tasks, or "done"), the     *)
(* loop index i and the task in execution, and the last value assigned to  *)
(* this.currentTaskIndex in the stretch (cur).                             *)
(***************************************************************************)
RECURSIVE SweepFrom(_, _, _, _, _, _)
SweepFrom(q, ts, st, paused, j, cur) ==
    IF j >= Len(q) \/ paused
    THEN [tasks |-> ts, store |-> st, pc |-> "done", i |-> IdleIndex, task |-> 0,
          cur |-> IdleIndex]
    ELSE IF Eligible(ts[At(q, j)])
    THEN LET r == At(q, j)
             e == ExecStart(ts, st, q, r)
         IN  IF e.pc # "returned"
             THEN [tasks |-> e.tasks, store |-> e.store, pc |-> e.pc, i |-> j,
                   task |-> r, cur |-> j]
             ELSE IF j < Len(q) - 1
             THEN [tasks |-> e.tasks, store |-> e.store, pc |-> "delay", i |-> j,
                   task |-> 0, cur |-> j]
             ELSE SweepFrom(q, e.tasks, e.store, paused, j + 1, j)
    ELSE SweepFrom(q, ts, st, paused, j + 1, cur)

\* (mutant) the loop index is advanced twice after a task
AfterExecuteSkips(q, ts, st, paused, i) ==
    SweepFrom(q, ts, st, paused, i + 2, currentTaskIndex)

\* what follows the return of executeTask in runAll: the sleep(1000) unless
\* the task is the last of the list, then the loop again
AfterExecute(q, ts, st, paused, i) ==
    IF i < Len(q) - 1
    THEN [tasks |-> ts, store |-> st, pc |-> "delay", i |-> i, task |-> 0,
          cur |-> currentTaskIndex]
    ELSE SweepFrom(q, ts, st, paused, i + 1, currentTaskIndex)

\* the async call p after such a stretch
ProcAfter(kind, s) ==
    IF s.pc = "done" THEN IdleProc
    ELSE [kind |-> kind, pc |-> s.pc, i |-> s.i, task |-> s.task]

FreeProc == CHOOSE p \in Procs : procs[p].kind = "none" /\
                \A o \in Procs : procs[o].kind = "none" => p <= o

\* (mutant) the sweep ends without its summary
SweepStepSilent(p, s) ==
    LET ps == [procs EXCEPT ![p] = ProcAfter("runAll", s)]
    IN  /\ procs' = ps
        /\ tasks' = Collect(s.tasks, queue, ps)
        /\ store' = s.store
        /\ currentTaskIndex' = s.cur
        /\ shown' = NoAlert
        /\ UNCHANGED <<queue, nextId>>

\* the effect of a stretch s of the runAll call p on the manager
SweepStep(p, s) ==
    LET ps == [procs EXCEPT ![p] = ProcAfter("runAll", s)]
    IN  /\ procs' = ps
        /\ tasks' = Collect(s.tasks, queue, ps)
        /\ store' = s.store
        /\ currentTaskIndex' = s.cur
        /\ shown' = IF s.pc = "done" THEN ShowSummary(queue, s.tasks) ELSE NoAlert
        /\ UNCHANGED <<queue, nextId>>

(***************************************************************************)
(* runAll()                                                                *)
(* paused is the value isPaused keeps when the call returns at once.       *)
(***************************************************************************)
\* (mutant) a running queue is not checked
RunAllBodyRestarts(paused) ==
    IF \A k \in 1..Len(queue) : ~Eligible(tasks[queue[k]])
    THEN /\ isPaused' = paused
         /\ shown' = NoAlert
         /\ UNCHANGED <<queue, tasks, store, isRunning, currentTaskIndex, procs, nextId>>
    ELSE /\ \E p \in Procs : procs[p].kind = "none"
         /\ LET s == SweepFrom(queue, tasks, store, FALSE, 0, currentTaskIndex)
            IN  /\ SweepStep(FreeProc, s)
                /\ isRunning' = (s.pc # "done")
         /\ isPaused' = FALSE

RunAllBody(paused) ==
    IF isRunning \/ \A k \in 1..Len(queue) : ~Eligible(tasks[queue[k]])
    THEN /\ isPaused' = paused
         /\ shown' = NoAlert
         /\ UNCHANGED <<queue, tasks, store, isRunning, currentTaskIndex, procs, nextId>>
    ELSE /\ \E p \in Procs : procs[p].kind = "none"
         /\ LET s == SweepFrom(queue, tasks, store, FALSE, 0, currentTaskIndex)
            IN  /\ SweepStep(FreeProc, s)
                /\ isRunning' = (s.pc # "done")
         /\ isPaused' = FALSE

RunAll ==
    /\ RunAllBody(isPaused)
    /\ Call("runAll", 0, 0, "undefined")

(***************************************************************************)
(* runTask(taskId)                                                         *)
(***************************************************************************)
\* (mutant) a running queue is not checked
RunTaskRejectsMissing(taskId) ==
    FindIndex(queue, tasks, taskId) = -1

RunTaskRejects(taskId) ==
    FindIndex(queue, tasks, taskId) = -1 \/ isRunning

RunTask(taskId) ==
    /\ shown' = NoAlert
    /\ IF RunTaskRejects(taskId)
       THEN UNCHANGED <<queue, tasks, store, isRunning, isPaused, currentTaskIndex,
                        procs, nextId>>
       ELSE /\ \E p \in Procs : procs[p].kind = "none"
            /\ LET r  == At(queue, FindIndex(queue, tasks, taskId))
                   e  == ExecStart(tasks, store, queue, r)
                   ps == [procs EXCEPT ![FreeProc] =
                            IF e.pc = "returned" THEN IdleProc
                            ELSE [kind |-> "runTask", pc |-> e.pc, i |-> IdleIndex,
                                  task |-> r]]
               IN  /\ procs' = ps
                   /\ tasks' = Collect(e.tasks, queue, ps)
                   /\ store' = e.store
                   /\ isRunning' = (e.pc # "returned")
            /\ UNCHANGED <<queue, isPaused, currentTaskIndex, nextId>>
    /\ Call("runTask", taskId, 0, "undefined")

(***************************************************************************)
(* The resumptions of the async calls                                      *)
(***************************************************************************)
\* (mutant) a failure escapes from executeTask in runTask, which does not
\* come to its last statements
ProceedThrows(p, e) ==
    IF e.pc # "returned"
    THEN /\ procs' = [procs EXCEPT ![p].pc = e.pc]
         /\ tasks' = e.tasks
         /\ store' = e.store
         /\ shown' = NoAlert
         /\ UNCHANGED <<queue, isRunning, isPaused, currentTaskIndex, nextId>>
    ELSE IF procs[p].kind = "runTask"
    THEN LET ps == [procs EXCEPT ![p] = IdleProc]
         IN  /\ procs' = ps
             /\ tasks' = Collect(e.tasks, queue, ps)
             /\ store' = e.store
             /\ isRunning' = (e.tasks[procs[p].task].status = "failed")
             /\ shown' = NoAlert
             /\ UNCHANGED <<queue, isPaused, currentTaskIndex, nextId>>
    ELSE LET s == AfterExecute(queue, e.tasks, e.store, isPaused, procs[p].i)
         IN  /\ SweepStep(p, s)
             /\ isRunning' = IF s.pc = "done" THEN FALSE ELSE isRunning
             /\ UNCHANGED isPaused

\* executeTask of call p has come to "exec", "backoff" or "returned" (e)
Proceed(p, e) ==
    IF e.pc # "returned"
    THEN /\ procs' = [procs EXCEPT ![p].pc = e.pc]
         /\ tasks' = e.tasks
         /\ store' = e.store
         /\ shown' = NoAlert
         /\ UNCHANGED <<queue, isRunning, isPaused, currentTaskIndex, nextId>>
    ELSE IF procs[p].kind = "runTask"
    THEN LET ps == [procs EXCEPT ![p] = IdleProc]
         IN  /\ procs' = ps
             /\ tasks' = Collect(e.tasks, queue, ps)
             /\ store' = e.store
             /\ isRunning' = FALSE
             /\ shown' = NoAlert
             /\ UNCHANGED <<queue, isPaused, currentTaskIndex, nextId>>
    ELSE LET s == AfterExecute(queue, e.tasks, e.store, isPaused, procs[p].i)
         IN  /\ SweepStep(p, s)
             /\ isRunning' = IF s.pc = "done" THEN FALSE ELSE isRunning
             /\ UNCHANGED isPaused

\* the API call of executeGeneration / Annotation / Modification settles
ExecutorSettles(p, ok) ==
    /\ procs[p].pc = "exec"
    /\ Proceed(p, IF ok THEN OnSuccess(tasks, store, queue, procs[p].task)
                  ELSE OnFailure(tasks, store, queue, procs[p].task, "error"))
    /\ Resumption

\* sleep(2000) is over: return await this.executeTask(task)
BackoffElapsed(p) ==
    /\ procs[p].pc = "backoff"
    /\ Proceed(p, ExecStart(tasks, store, queue, procs[p].task))
    /\ Resumption

\* sleep(1000) is over: i++ and the loop again
DelayElapsed(p) ==
    /\ procs[p].pc = "delay"
    /\ LET s == SweepFrom(queue, tasks, store, isPaused, procs[p].i + 1, currentTaskIndex)
       IN  /\ SweepStep(p, s)
           /\ isRunning' = IF s.pc = "done" THEN FALSE ELSE isRunning
    /\ Resumption
    /\ UNCHANGED isPaused

(***************************************************************************)
(* pauseQueue(), resumeQueue(), stopQueue()                                *)
(***************************************************************************)
PauseQueue ==
    /\ isPaused' = IF isRunning THEN TRUE ELSE isPaused
    /\ Call("pauseQueue", 0, 0, "undefined")
    /\ shown' = NoAlert
    /\ UNCHANGED <<queue, tasks, store, isRunning, currentTaskIndex, procs, nextId>>

\* (mutant) resuming starts a sweep even though one is running
ResumeQueueRestarts ==
    /\ IF ~isRunning \/ ~isPaused
       THEN /\ shown' = NoAlert
            /\ UNCHANGED <<queue, tasks, store, isRunning, isPaused, currentTaskIndex,
                           procs, nextId>>
       ELSE RunAllBodyRestarts(FALSE)
    /\ Call("resumeQueue", 0, 0, "undefined")

ResumeQueue ==
    /\ IF ~isRunning \/ ~isPaused
       THEN /\ shown' = NoAlert
            /\ UNCHANGED <<queue, tasks, store, isRunning, isPaused, currentTaskIndex,
                           procs, nextId>>
       ELSE RunAllBody(FALSE)
    /\ Call("resumeQueue", 0, 0, "undefined")

StopQueue ==
    /\ isRunning' = FALSE
    /\ isPaused' = FALSE
    /\ currentTaskIndex' = IdleIndex
    /\ Call("stopQueue", 0, 0, "undefined")
    /\ shown' = NoAlert
    /\ UNCHANGED <<queue, tasks, store, procs, nextId>>

(***************************************************************************)
(* removeTask(taskId), clearQueue(), reorderTask(fromIndex, toIndex)       *)
(***************************************************************************)
\* (mutant) a task being executed is removed like any other
RemoveRejectsNothing(t) == FALSE

RemoveRejects(t) == t.status = "processing"

\* (mutant) saving replaces the tasks by what is stored of them
RemoveTaskSavesInPlace(taskId) ==
    /\ LET index == FindIndex(queue, tasks, taskId)
       IN  IF index = -1 \/ RemoveRejects(tasks[At(queue, index)])
           THEN /\ Call("removeTask", taskId, 0, "false")
                /\ UNCHANGED <<queue, tasks, store>>
           ELSE LET q == SpliceOut(queue, index)
                IN  /\ queue' = q
                    /\ tasks' = Collect([r \in DOMAIN tasks |-> Snapshot(tasks[r])],
                                        q, procs)
                    /\ store' = SaveToStorage(q, tasks)
                    /\ Call("removeTask", taskId, 0, "true")
    /\ shown' = NoAlert
    /\ UNCHANGED <<isRunning, isPaused, currentTaskIndex, procs, nextId>>

RemoveTask(taskId) ==
    /\ LET index == FindIndex(queue, tasks, taskId)
       IN  IF index = -1 \/ RemoveRejects(tasks[At(queue, index)])
           THEN /\ Call("removeTask", taskId, 0, "false")
                /\ UNCHANGED <<queue, tasks, store>>
           ELSE LET q == SpliceOut(queue, index)
                IN  /\ queue' = q
                    /\ tasks' = Collect(tasks, q, procs)
                    /\ store' = SaveToStorage(q, tasks)
                    /\ Call("removeTask", taskId, 0, "true")
    /\ shown' = NoAlert
    /\ UNCHANGED <<isRunning, isPaused, currentTaskIndex, procs, nextId>>

\* confirmed is the user's answer to confirm(), asked when the queue runs
ClearQueue(confirmed) ==
    /\ Call("clearQueue", IF confirmed THEN 1 ELSE 0, 0, "undefined")
    /\ shown' = NoAlert
    /\ IF isRunning /\ ~confirmed
       THEN UNCHANGED <<queue, tasks, store, isRunning, isPaused, currentTaskIndex,
                        procs, nextId>>
       ELSE /\ isRunning' = FALSE
            /\ isPaused' = IF isRunning THEN FALSE ELSE isPaused
            /\ queue' = <<>>
            /\ currentTaskIndex' = IdleIndex
            /\ tasks' = Collect(tasks, <<>>, procs)
            /\ store' = SaveToStorage(<<>>, tasks)
            /\ UNCHANGED <<procs, nextId>>

\* (mutant) the two tasks change places
ReorderTaskSwaps(fromIndex, toIndex) ==
    /\ fromIndex \in 0..(Len(queue) - 1)
    /\ toIndex \in 0..(Len(queue) - 1)
    /\ Call("reorderTask", fromIndex, toIndex, "undefined")
    /\ shown' = NoAlert
    /\ LET q == [queue EXCEPT ![fromIndex + 1] = At(queue, toIndex),
                              ![toIndex + 1] = At(queue, fromIndex)]
       IN  /\ queue' = q
           /\ store' = SaveToStorage(q, tasks)
    /\ UNCHANGED <<tasks, isRunning, isPaused, currentTaskIndex, procs, nextId>>

\* reorderTask for any two integers. When nothing is at fromIndex the
\* element inserted is undefined, and saveToStorage, which throws on reading
\* its params and catches, leaves the slot as it was
ReorderTask(fromIndex, toIndex) ==
    /\ Call("reorderTask", fromIndex, toIndex, "undefined")
    /\ shown' = NoAlert
    /\ IF fromIndex = toIndex
       THEN UNCHANGED <<queue, store>>
       ELSE LET q == SpliceIn(SpliceOut(queue, fromIndex), toIndex,
                              Spliced(queue, fromIndex))
            IN  /\ queue' = q
                /\ store' = IF Undefined \in Range(q) THEN store
                            ELSE SaveToStorage(q, tasks)
    /\ UNCHANGED <<tasks, isRunning, isPaused, currentTaskIndex, procs, nextId>>

\* the drop handler: fromIndex and toIndex are indexes of the list, read
\* from the rendered items
Drop(fromIndex, toIndex) ==
    /\ fromIndex \in 0..(Len(queue) - 1)
    /\ toIndex \in 0..(Len(queue) - 1)
    /\ ReorderTask(fromIndex, toIndex)

(***************************************************************************)
(* The page is reloaded: every pending call is gone, and the constructor   *)
(* builds a new manager from localStorage.                                 *)
(***************************************************************************)
\* (mutant) the reset also forgets the retries made
NormalizeResetsRetries(t) ==
    IF t.status = "processing" THEN [t EXCEPT !.status = "pending", !.retryCount = 0]
    ELSE t

\* the forEach of loadFromStorage
Normalize(t) == IF t.status = "processing" THEN [t EXCEPT !.status = "pending"] ELSE t

\* the list and the objects loadFromStorage builds from the stored value
LoadFromStorage(st) ==
    IF st.kind = "array"
    THEN [queue |-> [k \in 1..Len(st.items) |-> st.items[k].id],
          tasks |-> [r \in {st.items[k].id : k \in 1..Len(st.items)} |->
                       Normalize(st.items[CHOOSE k \in 1..Len(st.items) :
                                             st.items[k].id = r])]]
    ELSE [queue |-> <<>>, tasks |-> <<>>]

Reload ==
    /\ queue' = LoadFromStorage(store).queue
    /\ tasks' = LoadFromStorage(store).tasks
    /\ isRunning' = FALSE
    /\ isPaused' = FALSE
    /\ currentTaskIndex' = IdleIndex
    /\ procs' = [p \in Procs |-> IdleProc]
    /\ Call("reload", 0, 0, "undefined")
    /\ shown' = NoAlert
    /\ UNCHANGED <<store, nextId>>

(***************************************************************************)
(* importQueue(): the reader's onload handler, for the file the user has   *)
(* picked. The files are lists exported from this queue earlier (tasks of   *)
(* ids already given), possibly while a task was being executed, and a     *)
(* JSON file that is not a list.                                           *)
(***************************************************************************)
ImportedTask(id, status) ==
    [NewTask(id, "generation", NoParams, 0) EXCEPT !.status = status]

ImportFiles ==
    << [kind |-> "object", items |-> <<>>],
       [kind |-> "array", items |-> <<>>],
       [kind |-> "array", items |-> <<ImportedTask(1, "pending")>>],
       [kind |-> "array", items |-> <<ImportedTask(1, "processing")>>],
       [kind |-> "array", items |-> <<ImportedTask(2, "completed"),
                                      ImportedTask(1, "processing")>>] >>

Idle == ~isRunning /\ \A p \in Procs : procs[p].kind = "none"

ImportQueue(file) ==
    /\ Idle
    /\ LET data == ImportFiles[file]
           ids  == {data.items[k].id : k \in 1..Len(data.items)}
       IN  /\ \A id \in ids : id < nextId
           /\ IF data.kind = "array"
              THEN LET q  == [k \in 1..Len(data.items) |-> data.items[k].id]
                       ts == [r \in ids |->
                                data.items[CHOOSE k \in 1..Len(data.items) :
                                              data.items[k].id = r]]
                   IN  /\ queue' = q
                       /\ tasks' = ts
                       /\ store' = SaveToStorage(q, ts)
              ELSE UNCHANGED <<queue, tasks, store>>
    /\ Call("importQueue", file, 0, "undefined")
    /\ shown' = NoAlert
    /\ UNCHANGED <<isRunning, isPaused, currentTaskIndex, procs, nextId>>

Next ==
    \/ \E type \in {"generation"}, params \in {NoParams}, priority \in {0} :
          AddTask(type, params, priority)
    \/ \E taskId \in TaskIds : RemoveTask(taskId)
    \/ \E confirmed \in BOOLEAN : ClearQueue(confirmed)
    \/ \E fromIndex, toIndex \in 0..(MaxTasks - 1) : Drop(fromIndex, toIndex)
    \/ RunAll
    \/ \E taskId \in TaskIds : RunTask(taskId)
    \/ PauseQueue
    \/ ResumeQueue
    \/ StopQueue
    \/ \E p \in Procs, ok \in BOOLEAN : ExecutorSettles(p, ok)
    \/ \E p \in Procs : BackoffElapsed(p)
    \/ \E p \in Procs : DelayElapsed(p)
    \/ Reload

Spec == Init /\ [][Next]_vars

\* the manager when nothing is removed or reordered and the queue is not stopped
NextOrder ==
    \/ \E type \in {"generation"}, params \in {NoParams}, priority \in {0} :
          AddTask(type, params, priority)
    \/ RunAll
    \/ \E taskId \in TaskIds : RunTask(taskId)
    \/ PauseQueue
    \/ ResumeQueue
    \/ \E p \in Procs, ok \in BOOLEAN : ExecutorSettles(p, ok)
    \/ \E p \in Procs : BackoffElapsed(p)
    \/ \E p \in Procs : DelayElapsed(p)
    \/ Reload

SpecOrder == Init /\ [][NextOrder]_vars

\* the manager with instrumented executors, its queue run and left alone:
\* executeGeneration succeeds every time, executeAnnotation fails every time
Succeeds(type) == type = "generation"

NextSweep ==
    \/ \E type \in {"generation", "annotation"}, params \in {NoParams}, priority \in {0} :
          AddTask(type, params, priority)
    \/ RunAll
    \/ \E p \in Procs :
          /\ procs[p].pc = "exec"
          /\ ExecutorSettles(p, Succeeds(tasks[procs[p].task].type))
    \/ \E p \in Procs : BackoffElapsed(p)
    \/ \E p \in Procs : DelayElapsed(p)

SpecSweep == Init /\ [][NextSweep]_vars

\* the manager when tasks are dragged only while nothing runs, and the queue
\* is then run and left alone
NextReorder ==
    \/ \E type \in {"generation"}, params \in {NoParams}, priority \in {0} :
          AddTask(type, params, priority)
    \/ \E fromIndex, toIndex \in 0..(MaxTasks - 1) :
          Idle /\ Drop(fromIndex, toIndex)
    \/ RunAll
    \/ \E p \in Procs, ok \in BOOLEAN : ExecutorSettles(p, ok)
    \/ \E p \in Procs : BackoffElapsed(p)
    \/ \E p \in Procs : DelayElapsed(p)

SpecReorder == Init /\ [][NextReorder]_vars

\* the manager when tasks of a type with no executor are added too
NextKinds ==
    \/ \E type \in {"generation", "unknown"}, params \in {NoParams}, priority \in {0} :
          AddTask(type, params, priority)
    \/ RunAll
    \/ \E taskId \in TaskIds : RunTask(taskId)
    \/ \E p \in Procs, ok \in BOOLEAN : ExecutorSettles(p, ok)
    \/ \E p \in Procs : BackoffElapsed(p)
    \/ \E p \in Procs : DelayElapsed(p)

SpecKinds == Init /\ [][NextKinds]_vars

\* the manager when lists are imported while nothing runs
NextImport ==
    \/ \E type \in {"generation"}, params \in {NoParams}, priority \in {0} :
          AddTask(type, params, priority)
    \/ \E file \in 1..Len(ImportFiles) : ImportQueue(file)
    \/ RunAll
    \/ \E taskId \in TaskIds : RunTask(taskId)
    \/ \E p \in Procs, ok \in BOOLEAN : ExecutorSettles(p, ok)
    \/ \E p \in Procs : BackoffElapsed(p)
    \/ \E p \in Procs : DelayElapsed(p)
    \/ Reload

SpecImport == Init /\ [][NextImport]_vars

\* the manager when the tasks added carry uploaded files
SomeFiles == {NoFile, "file"}
SomeParams ==
    {[referenceImage |-> f, productImage |-> g, productName |-> "name"] :
        f \in SomeFiles, g \in SomeFiles}

NextFiles ==
    \/ \E type \in {"generation"}, params \in SomeParams, priority \in {0} :
          AddTask(type, params, priority)
    \/ \E taskId \in TaskIds : RemoveTask(taskId)
    \/ RunAll
    \/ \E p \in Procs, ok \in BOOLEAN : ExecutorSettles(p, ok)
    \/ \E p \in Procs : BackoffElapsed(p)
    \/ \E p \in Procs : DelayElapsed(p)
    \/ Reload

SpecFiles == Init /\ [][NextFiles]_vars

\* the storage runs out of room, or gets some back
QuotaChanges ==
    /\ quota' = IF quota = "ok" THEN "exceeded" ELSE "ok"
    /\ last' = NoCall
    /\ shown' = NoAlert
    /\ UNCHANGED <<queue, tasks, store, isRunning, isPaused, currentTaskIndex, procs,
                   nextId, calls, hist>>

\* the manager when the writes to the storage may fail
NextStore ==
    \/ \E type \in {"generation"}, params \in {NoParams}, priority \in {0} :
          AddTask(type, params, priority)
    \/ \E fromIndex, toIndex \in 0..(MaxTasks - 1) :
          Idle /\ Drop(fromIndex, toIndex)
    \/ RunAll
    \/ \E p \in Procs, ok \in BOOLEAN : ExecutorSettles(p, ok)
    \/ \E p \in Procs : BackoffElapsed(p)
    \/ \E p \in Procs : DelayElapsed(p)
    \/ QuotaChanges

SpecStore == Init /\ [][NextStore]_vars

(***************************************************************************)
(* Properties                                                              *)
(***************************************************************************)
\* the tasks of the list in execution, and the calls awaiting the API
Processing == {r \in Range(queue) : tasks[r].status = "processing"}
InFlight == {p \in Procs : procs[p].pc = "exec"}

\* C1 (single worker): in every reachable state at most one task has status
\* processing and at most one Executor invocation is in flight.
C1_SingleWorker ==
    /\ Cardinality(Processing) <= 1
    /\ Cardinality(InFlight) <= 1

\* the sweep p enters executeTask for another index of the list in this step
Picks(p) ==
    /\ procs'[p].kind = "runAll"
    /\ procs'[p].task # 0
    /\ procs[p].kind = "none" \/ procs'[p].i # procs[p].i

\* the sweep p ends in this step, by itself and not upon a pause
EndsUnpaused(p) ==
    /\ procs[p].kind = "runAll"
    /\ procs'[p].kind = "none"
    /\ last' = NoCall
    /\ ~isPaused

InsertionOrder == \A k \in 1..Len(queue) : tasks[queue[k]].id = k

OrderStep(p) ==
    /\ Picks(p) =>
          /\ procs'[p].i > procs[p].i
          /\ procs'[p].task = At(queue, procs'[p].i)
          /\ Eligible(tasks[procs'[p].task])
          /\ \A k \in (procs[p].i + 1)..(procs'[p].i - 1) : ~Eligible(tasks[At(queue, k)])
    /\ (procs[p].pc = "backoff" /\ procs'[p].pc = "exec") =>
          /\ procs'[p].task = procs[p].task
          /\ procs'[p].i = procs[p].i
    /\ EndsUnpaused(p) =>
          \A k \in (procs[p].i + 1)..(Len(queue) - 1) : ~Eligible(tasks'[At(queue, k)])

\* C2 (ordering): with no reorder, remove or stop, the list is in insertion
\* order and a sweep passes to the Executor the eligible tasks in list order:
\* each task it picks is the first eligible one after the one it picked
\* before (the first of the list for a new sweep), a retry is of the same
\* task, and a sweep that ends unpaused leaves no eligible task behind it.
C2_Ordering == []InsertionOrder /\ [][\A p \in Procs : OrderStep(p)]_vars

\* a sweep has passed a completed and a failed task and executes the third
C2_Witness ==
    /\ Len(queue) = 3
    /\ tasks[queue[1]].status = "completed"
    /\ tasks[queue[2]].status = "failed"
    /\ \E p \in Procs : procs[p] = [kind |-> "runAll", pc |-> "exec", i |-> 2,
                                     task |-> queue[3]]

\* the Executor call of p fails in this step
FailsIn(p) == procs[p].pc = "exec" /\ ExecutorSettles(p, FALSE)

RetryInv == \A r \in DOMAIN tasks : tasks[r].retryCount \in 0..maxRetries

\* a failed attempt either leaves the task pending for a retry, with one
\* more retry counted, or ends the execution: then the task is failed and
\* its retryCount is maxRetries
RetryStep(p) ==
    FailsIn(p) =>
        LET r == procs[p].task
        IN  IF procs'[p].pc = "backoff"
            THEN /\ procs'[p].task = r
                 /\ tasks'[r].status = "pending"
                 /\ tasks'[r].retryCount = tasks[r].retryCount + 1
            ELSE /\ tasks[r].retryCount = maxRetries
                 /\ r \in DOMAIN tasks' =>
                       /\ tasks'[r].status = "failed"
                       /\ tasks'[r].retryCount = maxRetries

\* C3 (retry bound): every task has 0 <= retryCount <= maxRetries in every
\* reachable state, and an execution can end on a failed attempt only with
\* the task failed and retryCount = maxRetries; so a task whose Executor
\* fails every time ends failed with retryCount = maxRetries.
C3_RetryBound == []RetryInv /\ [][\A p \in Procs : RetryStep(p)]_vars

\* a task of the list has failed for good after maxRetries retries
C3_Witness ==
    \E r \in Range(queue) :
        /\ tasks[r].status = "failed"
        /\ tasks[r].retryCount = maxRetries
        /\ tasks[r].error = [msg |-> "error", attempt |-> 0]

\* the list the constructor builds is the stored list, task by task, but
\* for the status of the tasks stored as processing, which is pending
LoadedFrom(st, q, ts) ==
    /\ Len(q) = Len(st.items)
    /\ \A k \in 1..Len(q) :
          LET s == st.items[k]
              t == ts[q[k]]
          IN  /\ t.retryCount = s.retryCount
              /\ t = [s EXCEPT !.status = IF s.status = "processing" THEN "pending"
                                          ELSE s.status]

\* C4 (crash recovery): when the page is reloaded with a stored list, the
\* new manager holds the stored tasks in the stored order, those stored as
\* processing now pending with their retryCount unchanged and the others
\* as stored; no task is processing and isRunning is false.
C4_CrashRecovery ==
    [][(last'.op = "reload" /\ store.kind = "array") =>
          /\ LoadedFrom(store, queue', tasks')
          /\ \A r \in DOMAIN tasks' : tasks'[r].status # "processing"
          /\ DOMAIN tasks' = Range(queue')
          /\ ~isRunning']_vars

\* a manager just built from a stored list that holds a task stored as
\* processing after a retry
C4_Witness ==
    /\ last.op = "reload"
    /\ \E k \in 1..Len(store.items) :
          /\ store.items[k].status = "processing"
          /\ store.items[k].retryCount > 0
          /\ tasks[queue[k]].status = "pending"

\* C5 (pause honors the in-flight task): a sweep that was executing task N
\* when pauseQueue() was called, with no resumeQueue() since, leaves the
\* execution of N only with N completed or failed, and picks no further
\* task.
C5_PauseHonored ==
    [][\A p \in hist.pausing :
          /\ ~Picks(p)
          /\ (last' = NoCall /\ procs[p].task # 0 /\ procs'[p].task # procs[p].task
               /\ procs[p].task \in DOMAIN tasks') =>
                 tasks'[procs[p].task].status \in {"completed", "failed"}]_vars

\* the index of the first eligible task of the list (-1 when there is none)
FirstEligible ==
    IF \E k \in 0..(Len(queue) - 1) : Eligible(tasks[At(queue, k)])
    THEN CHOOSE k \in 0..(Len(queue) - 1) :
            /\ Eligible(tasks[At(queue, k)])
            /\ \A j \in 0..(k - 1) : ~Eligible(tasks[At(queue, j)])
    ELSE -1

\* a pause has taken effect: a sweep has seen isPaused and has ended before
\* an eligible task, and no call is pending
PauseTookEffect ==
    /\ hist.observed
    /\ \A p \in Procs : procs[p].kind = "none"

\* C6 (resume continues a paused queue): once a pause has taken effect and
\* an eligible task is left, resumeQueue() clears isPaused and starts
\* executing the first eligible task of the list.
C6_ResumeContinues ==
    [][(last'.op = "resumeQueue" /\ PauseTookEffect /\ FirstEligible # -1) =>
          /\ ~isPaused'
          /\ tasks'[At(queue, FirstEligible)].status = "processing"
          /\ \E p \in Procs : procs'[p] = [kind |-> "runAll", pc |-> "exec",
                                           i |-> FirstEligible,
                                           task |-> At(queue, FirstEligible)]]_vars

\* C7 (stop picks up nothing further): a sweep that was executing a task
\* when stopQueue() was called (directly or by clearQueue), with no runAll()
\* or runTask() called since, picks no further task.
C7_StopPicksNothing == [][\A p \in hist.stopped : ~Picks(p)]_vars

\* C8. Task state machine: whatever the operations, every change of a task's
\* status is one of pending -> processing, failed -> processing,
\* processing -> completed, processing -> pending, processing -> failed; so no
\* task leaves completed and none goes from pending to completed or failed
\* without passing through processing.
Transitions ==
    {<<"pending", "processing">>, <<"failed", "processing">>,
     <<"processing", "completed">>, <<"processing", "pending">>,
     <<"processing", "failed">>}

C8_StateMachine ==
    [][\A r \in DOMAIN tasks \cap DOMAIN tasks' :
          tasks'[r].status # tasks[r].status =>
              <<tasks[r].status, tasks'[r].status>> \in Transitions]_vars

\* C9. removeTask busy rejection: removeTask(id) on a task of the list whose
\* status is processing returns false and leaves the list (membership, order,
\* every field of every task) and the stored snapshot unchanged; on a task of
\* any other status it removes exactly that task, keeps the others in their
\* order, and returns true.
Target(taskId) == CHOOSE r \in Range(queue) : tasks[r].id = taskId

Without(q, r) == SelectSeq(q, LAMBDA x : x # r)

C9_RemoveBusy ==
    [][last'.op = "removeTask" /\ (\E r \in Range(queue) : tasks[r].id = last'.a) =>
          LET r == Target(last'.a)
          IN  IF tasks[r].status = "processing"
              THEN /\ last'.ret = "false"
                   /\ queue' = queue
                   /\ \A x \in Range(queue) : tasks'[x] = tasks[x]
                   /\ store' = store
              ELSE /\ last'.ret = "true"
                   /\ queue' = Without(queue, r)
                   /\ \A x \in Range(queue') : tasks'[x] = tasks[x]]_vars

\* removeTask was just refused for a task of the list that is being executed
C9_Witness ==
    /\ last.op = "removeTask"
    /\ last.ret = "false"
    /\ \E r \in Range(queue) : tasks[r].id = last.a /\ tasks[r].status = "processing"
    /\ Len(queue) >= 2

\* C10. runTask busy rejection: runTask(id) called while isRunning is true
\* starts no executor call and changes no task, nor isRunning, isPaused or
\* currentTaskIndex.
C10_RunTaskBusy ==
    [][last'.op = "runTask" /\ isRunning =>
          /\ procs' = procs
          /\ queue' = queue
          /\ tasks' = tasks
          /\ store' = store
          /\ isRunning' = isRunning
          /\ isPaused' = isPaused
          /\ currentTaskIndex' = currentTaskIndex]_vars

\* runTask was just refused, while the queue runs, for an eligible task of the
\* list that no call is executing
C10_Witness ==
    /\ last.op = "runTask"
    /\ isRunning
    /\ \E r \in Range(queue) :
          /\ tasks[r].id = last.a
          /\ Eligible(tasks[r])
          /\ \A p \in Procs : procs[p].task # r

\* a sweep ends in this step
SweepEnds == \E p \in Procs : procs[p].kind = "runAll" /\ procs'[p].kind = "none"

\* C11. Sweep outcome and summary: with executors that each succeed every
\* time or fail every time, a sweep left alone ends with every task of an
\* always-succeeding executor completed, every task of an always-failing one
\* failed with retryCount = maxRetries, and shows a summary whose completed,
\* failed and total are the number of completed tasks, of failed tasks and
\* the length of the list.
C11_SweepSummary ==
    [][SweepEnds =>
          /\ \A r \in Range(queue') :
                IF Succeeds(tasks'[r].type)
                THEN tasks'[r].status = "completed"
                ELSE tasks'[r].status = "failed" /\ tasks'[r].retryCount = maxRetries
          /\ shown'.kind = "summary"
          /\ shown'.completed =
                Cardinality({k \in 1..Len(queue') : tasks'[queue'[k]].status = "completed"})
          /\ shown'.failed =
                Cardinality({k \in 1..Len(queue') : tasks'[queue'[k]].status = "failed"})
          /\ shown'.total = Len(queue')]_vars

\* succeed, fail, succeed: the sweep has just ended and has shown
\* completed = 2, failed = 1, total = 3
C11_Witness ==
    /\ Len(queue) = 3
    /\ tasks[queue[1]].type = "generation" /\ tasks[queue[1]].status = "completed"
    /\ tasks[queue[2]].type = "annotation" /\ tasks[queue[2]].status = "failed"
    /\ tasks[queue[2]].retryCount = maxRetries
    /\ tasks[queue[3]].type = "generation" /\ tasks[queue[3]].status = "completed"
    /\ shown = [kind |-> "summary", completed |-> 2, failed |-> 1, total |-> 3]

\* C12. Reorder then run: reorderTask(fromIndex, toIndex) on an idle queue
\* moves the task at fromIndex to toIndex and keeps the others in their
\* order, and a later sweep passes the tasks to the executors in the order of
\* the resulting list: each task it picks is the first eligible one after the
\* one it picked before.
C12_ReorderThenRun ==
    [][/\ last'.op = "reorderTask" =>
             LET x == At(queue, last'.a)
             IN  /\ At(queue', last'.b) = x
                 /\ Without(queue', x) = Without(queue, x)
       /\ \A p \in Procs : OrderStep(p)]_vars

\* add A, B, C; reorder to [C, A, B]; the sweep has completed C and A in
\* that order and executes B
C12_Witness ==
    /\ Len(queue) = 3
    /\ tasks[queue[1]].id = 3 /\ tasks[queue[1]].status = "completed"
    /\ tasks[queue[2]].id = 1 /\ tasks[queue[2]].status = "completed"
    /\ tasks[queue[3]].id = 2
    /\ \E p \in Procs : procs[p] = [kind |-> "runAll", pc |-> "exec", i |-> 2,
                                     task |-> queue[3]]

\* C13. Unknown task kind is not retried: a task whose type has no executor
\* changes status only to failed, in the step that executes it, with its
\* retryCount unchanged, and no call is left waiting on it (no backoff, no
\* second attempt).
C13_UnknownKind ==
    [][\A r \in DOMAIN tasks \cap DOMAIN tasks' :
          tasks[r].type \notin KnownTypes =>
              /\ tasks'[r].status \in {tasks[r].status, "failed"}
              /\ tasks'[r].retryCount = tasks[r].retryCount
              /\ \A p \in Procs : procs'[p].task # r]_vars

\* C14. Reorder of the in-flight task is rejected: reorderTask(fromIndex,
\* toIndex) called while the task at fromIndex has status processing leaves
\* the order of the list and the stored snapshot unchanged.
C14_ReorderInFlight ==
    [][(last'.op = "reorderTask" /\ tasks[At(queue, last'.a)].status = "processing") =>
          /\ queue' = queue
          /\ store' = store]_vars

\* C15. Import normalization: importing a list replaces the list of the
\* manager by the imported tasks, in their order, those imported as
\* processing now pending and the others as imported; so right after an
\* import made while idle no task has status processing.
C15_ImportNormalizes ==
    [][(last'.op = "importQueue" /\ ImportFiles[last'.a].kind = "array") =>
          LET items == ImportFiles[last'.a].items
          IN  /\ Len(queue') = Len(items)
              /\ \A k \in 1..Len(items) :
                    tasks'[queue'[k]] =
                       [items[k] EXCEPT !.status = IF items[k].status = "processing"
                                                   THEN "pending" ELSE items[k].status]
              /\ \A r \in Range(queue') : tasks'[r].status # "processing"]_vars

\* the stored entry s holds no file, and every other field of the task t
WrittenFrom(s, t) ==
    /\ s.params.referenceImage = NoFile
    /\ s.params.productImage = NoFile
    /\ s.params.productName = t.params.productName
    /\ s.id = t.id
    /\ s.type = t.type
    /\ s.status = t.status
    /\ s.result = t.result
    /\ s.error = t.error
    /\ s.retryCount = t.retryCount
    /\ s.priority = t.priority

NoFileStored ==
    \A k \in 1..Len(store.items) :
        /\ store.items[k].params.referenceImage = NoFile
        /\ store.items[k].params.productImage = NoFile

\* C16. Binary payloads are never persisted: in every stored snapshot the
\* referenceImage and productImage of every task are null, whatever they
\* are in memory, and a snapshot just written holds every other field of
\* every task of the list as it is in memory.
C16_NoBinaryStored ==
    /\ []NoFileStored
    /\ [][store' # store =>
             /\ Len(store'.items) = Len(queue')
             /\ \A k \in 1..Len(queue') :
                   WrittenFrom(store'.items[k], tasks'[queue'[k]])]_vars

\* a task that holds two files in memory has been executed and stored
C16_Witness ==
    \E k \in 1..Len(queue) :
        /\ Len(store.items) = Len(queue)
        /\ tasks[queue[k]].params.referenceImage = "file"
        /\ tasks[queue[k]].params.productImage = "file"
        /\ tasks[queue[k]].status = "completed"
        /\ store.items[k].status = "completed"
        /\ store.items[k].params.referenceImage = NoFile

\* the step is made by executeTask: a call that starts an execution, or the
\* resumption of an await
ByExecuteTask == last'.op \in {"none", "runAll", "runTask", "resumeQueue"}

\* C17. Persistence after every transition: after each change of status
\* that executeTask makes to a task of the list (to processing, back to
\* pending for a retry, to completed, to failed), the stored snapshot holds
\* that task with the status and the retryCount it has in memory.
C17_PersistsTransitions ==
    [][ByExecuteTask =>
          \A k \in 1..Len(queue') :
              LET r == queue'[k]
              IN  (r \in DOMAIN tasks /\ tasks'[r].status # tasks[r].status) =>
                      /\ Len(store'.items) >= k
                      /\ store'.items[k].id = tasks'[r].id
                      /\ store'.items[k].status = tasks'[r].status
                      /\ store'.items[k].retryCount = tasks'[r].retryCount]_vars

EmptyStored == [kind |-> "array", items |-> <<>>]

\* C18. clearQueue during a run: clearQueue(), confirmed, on a running queue
\* leaves the list empty, currentTaskIndex idle, isRunning and isPaused false
\* and an empty stored snapshot; and as long as nothing is added, the
\* resumptions of the calls it has orphaned (the executor settling, the
\* retries) leave the list and the stored snapshot empty.
C18_ClearWhileRunning ==
    [][/\ (last'.op = "clearQueue" /\ last'.a = 1 /\ isRunning) =>
             /\ queue' = <<>>
             /\ currentTaskIndex' = IdleIndex
             /\ ~isRunning'
             /\ ~isPaused'
             /\ store' = EmptyStored
       /\ (hist.cleared /\ last' = NoCall) =>
             /\ queue' = <<>>
             /\ store' = EmptyStored]_vars

\* the sweep orphaned by clearQueue() has ended on the empty list, its
\* task settled, and list and snapshot are empty
C18_Witness ==
    /\ hist.cleared
    /\ shown = [kind |-> "summary", completed |-> 0, failed |-> 0, total |-> 0]
    /\ queue = <<>>
    /\ store = EmptyStored
    /\ \A p \in Procs : procs[p].kind = "none"

Done(t) == t.status = "completed" \/ t.status = "failed"

\* C19. Tasks added mid-sweep: a task added while a sweep is in progress is
\* appended at the end of the list; the sweep passes it to its executor only
\* when every task ahead of it in the list is completed or failed, and does
\* not end before the task is itself completed or failed.
C19_AddedMidSweep ==
    [][/\ (last'.op = "addTask" /\ Sweeping # {}) =>
             /\ Len(queue') = Len(queue) + 1
             /\ SubSeq(queue', 1, Len(queue)) = queue
             /\ queue'[Len(queue')] \in hist'.late
             /\ tasks'[queue'[Len(queue')]].status = "pending"
       /\ \A p \in Procs :
             /\ (Picks(p) /\ procs'[p].task \in hist.late) =>
                   \A k \in 0..(procs'[p].i - 1) : Done(tasks[At(queue, k)])
             /\ (p \in Sweeping /\ procs'[p].kind = "none") =>
                   \A r \in hist.late : Done(tasks'[r])]_vars

\* the sweep executes a task that was added while it was executing the task
\* before, which has failed since
C19_Witness ==
    \E p \in Procs :
        /\ Len(queue) >= 2
        /\ procs[p] = [kind |-> "runAll", pc |-> "exec", i |-> 1, task |-> At(queue, 1)]
        /\ At(queue, 1) \in hist.late
        /\ tasks[At(queue, 0)].status = "failed"

\* the task has used up its retries
Exhausted(t) == t.retryCount = maxRetries

\* C20. Manual re-run does not reset the retry budget: when a failed task
\* with retryCount = maxRetries is run again (runTask, or a new sweep), it
\* goes to processing with its retryCount unchanged and its executor is
\* called; if that call fails, the task is failed again at once, with no
\* retry and retryCount still maxRetries, and if it succeeds the task is
\* completed with retryCount unchanged.
C20_RerunKeepsBudget ==
    [][/\ \A r \in DOMAIN tasks \cap DOMAIN tasks' :
             (tasks[r].status = "failed" /\ Exhausted(tasks[r])
                /\ tasks'[r].status = "processing") =>
                   /\ Exhausted(tasks'[r])
                   /\ \E p \in Procs : procs'[p].task = r /\ procs'[p].pc = "exec"
       /\ \A p \in Procs :
             LET r == procs[p].task
             IN  (procs[p].pc = "exec" /\ Exhausted(tasks[r]) /\ r \in DOMAIN tasks') =>
                    /\ ExecutorSettles(p, FALSE) =>
                          /\ tasks'[r].status = "failed"
                          /\ Exhausted(tasks'[r])
                          /\ procs'[p].task # r
                    /\ ExecutorSettles(p, TRUE) =>
                          /\ tasks'[r].status = "completed"
                          /\ Exhausted(tasks'[r])
                          /\ procs'[p].task # r]_vars

\* a task that had failed for good, with its retries used up, is being
\* executed again (it still carries the error of its last failure)
C20_Witness ==
    \E p \in Procs :
        /\ procs[p].pc = "exec"
        /\ tasks[procs[p].task].status = "processing"
        /\ Exhausted(tasks[procs[p].task])
        /\ tasks[procs[p].task].error = [msg |-> "error", attempt |-> 0]

\* C21. addTask post-state: in every state of the queue (idle, running,
\* paused) addTask appends exactly one new task at the end of the list, with
\* a new id, status pending, retryCount 0, no result and no error; it leaves
\* the tasks already in the list and their order unchanged, as well as
\* isRunning, isPaused and currentTaskIndex; it stores the new list and
\* returns the id of the new task.
C21_AddTaskPost ==
    [][last'.op = "addTask" =>
          /\ Len(queue') = Len(queue) + 1
          /\ SubSeq(queue', 1, Len(queue)) = queue
          /\ \A x \in Range(queue) : tasks'[x] = tasks[x]
          /\ LET t == tasks'[queue'[Len(queue')]]
             IN  /\ t.status = "pending"
                 /\ t.retryCount = 0
                 /\ t.result = "null"
                 /\ t.error = NoError
                 /\ \A x \in Range(queue) : tasks[x].id # t.id
                 /\ last'.ret = ToString(t.id)
          /\ isRunning' = isRunning
          /\ isPaused' = isPaused
          /\ currentTaskIndex' = currentTaskIndex
          /\ procs' = procs
          /\ store'.kind = "array"
          /\ Len(store'.items) = Len(queue')
          /\ \A k \in 1..Len(queue') :
                /\ store'.items[k].id = tasks'[queue'[k]].id
                /\ store'.items[k].status = tasks'[queue'[k]].status
                /\ store'.items[k].retryCount = tasks'[queue'[k]].retryCount]_vars

\* a task was just added to a paused queue that is executing another task
C21_Witness ==
    /\ last.op = "addTask"
    /\ isRunning
    /\ isPaused
    /\ Len(queue) >= 2
    /\ tasks[queue[1]].status = "processing"
    /\ tasks[queue[Len(queue)]].id = nextId - 1

\* the executor call of p fails and the task has no retry left
FailsForGood(p) == FailsIn(p) /\ Exhausted(tasks[procs[p].task])

\* the sleep(1000) of the sweep p is over in this step
DelayOver(p) == procs[p].pc = "delay" /\ last' = NoCall /\ procs'[p] # procs[p]

\* what a failed executor call leaves of the call p that made it
Contained(p) ==
    /\ (FailsIn(p) /\ ~Exhausted(tasks[procs[p].task])) =>
          procs'[p] = [procs[p] EXCEPT !.pc = "backoff"]
    /\ (FailsForGood(p) /\ procs[p].kind = "runAll") =>
          /\ tasks'[procs[p].task].status = "failed"
          /\ IF procs[p].i < Len(queue) - 1
             THEN /\ procs'[p] = [procs[p] EXCEPT !.pc = "delay", !.task = 0]
                  /\ isRunning' = isRunning
             ELSE /\ procs'[p] = IdleProc
                  /\ ~isRunning'
                  /\ shown'.kind = "summary"
    /\ (FailsForGood(p) /\ procs[p].kind = "runTask") =>
          /\ tasks'[procs[p].task].status = "failed"
          /\ procs'[p] = IdleProc
          /\ ~isRunning'
    /\ (DelayOver(p) /\ ~isPaused
          /\ \E k \in (procs[p].i + 1)..(Len(queue) - 1) :
                Eligible(tasks[At(queue, k)])) =>
          /\ procs'[p].pc = "exec"
          /\ procs'[p].i > procs[p].i
          /\ tasks'[procs'[p].task].status = "processing"

\* C22. Executor failures are contained: a failed executor call leaves the
\* call of runAll or runTask going. After a failure that is retried the call
\* waits for the retry; after a permanent failure in a sweep the task is
\* failed and the sweep goes on, to its sleep and then to the next eligible
\* task when it is not paused, or to its end when the task was the last;
\* after a permanent failure in runTask the call returns with isRunning
\* false.
C22_FailuresContained == [][\A p \in Procs : Contained(p)]_vars

\* after a task failed for good, the sweep executes the next task
C22_Witness ==
    /\ Len(queue) >= 2
    /\ tasks[queue[1]].status = "failed"
    /\ Exhausted(tasks[queue[1]])
    /\ tasks[queue[2]].status = "processing"
    /\ tasks[queue[2]].retryCount = 0
    /\ \E p \in Procs : procs[p] = [kind |-> "runAll", pc |-> "exec", i |-> 1,
                                     task |-> queue[2]]

\* a step of the manager while the writes to the storage fail
WriteFails == quota = "exceeded" /\ quota' = "exceeded"

\* the executor call of p succeeds
SucceedsIn(p) == procs[p].pc = "exec" /\ ExecutorSettles(p, TRUE)

\* C23. A store write failure is not fatal: while the writes fail the slot
\* keeps its value and every operation completes with the effect it has in
\* memory when the write succeeds. addTask appends the pending task and
\* returns its id, reorderTask moves the task, a successful executor call
\* completes its task, a failed one is retried or fails the task, and the
\* sweep goes on in list order to its end; isRunning, isPaused and
\* currentTaskIndex are what the operation makes them.
C23_WriteFailureNotFatal ==
    [][WriteFails =>
          /\ store' = store
          /\ last'.op = "addTask" =>
                /\ queue' = Append(queue, nextId)
                /\ tasks'[nextId].status = "pending"
                /\ \A x \in Range(queue) : tasks'[x] = tasks[x]
                /\ last'.ret = ToString(nextId)
                /\ UNCHANGED <<isRunning, isPaused, currentTaskIndex, procs>>
          /\ (last'.op = "reorderTask" /\ last'.a # last'.b) =>
                /\ At(queue', last'.b) = At(queue, last'.a)
                /\ UNCHANGED <<tasks, isRunning, isPaused, currentTaskIndex, procs>>
          /\ (last'.op = "runAll" /\ ~isRunning
                /\ \E k \in 1..Len(queue) : Eligible(tasks[queue[k]])) =>
                /\ isRunning'
                /\ ~isPaused'
                /\ \E p \in Procs : Picks(p)
          /\ \A p \in Procs :
                /\ Contained(p)
                /\ OrderStep(p)
                /\ SucceedsIn(p) =>
                      /\ tasks'[procs[p].task].status = "completed"
                      /\ tasks'[procs[p].task].error = NoError
                      /\ IF procs[p].i < Len(queue) - 1
                         THEN /\ procs'[p] = [procs[p] EXCEPT !.pc = "delay", !.task = 0]
                              /\ isRunning' = isRunning
                              /\ currentTaskIndex' = currentTaskIndex
                         ELSE /\ procs'[p] = IdleProc
                              /\ ~isRunning'
                              /\ currentTaskIndex' = IdleIndex
                              /\ shown'.kind = "summary"
                /\ (procs[p].pc = "exec" /\ procs'[p] # procs[p]) =>
                      isPaused' = isPaused]_vars

\* the writes fail since before the sweep completed the first task: the
\* slot still has it pending while the sweep executes the second
C23_Witness ==
    /\ quota = "exceeded"
    /\ Len(queue) >= 2
    /\ tasks[queue[1]].status = "completed"
    /\ store.kind = "array"
    /\ Len(store.items) >= 1
    /\ store.items[1].status = "pending"
    /\ tasks[queue[2]].status = "processing"
    /\ \E p \in Procs : procs[p] = [kind |-> "runAll", pc |-> "exec", i |-> 1,
                                     task |-> queue[2]]

\* an element of a stored array that is not a task (a number, a string, an
\* object of another shape): reading any field of it gives undefined
NotATask ==
    [id |-> 0, type |-> "undefined", params |-> NoParams, status |-> "undefined",
     result |-> "null", error |-> NoError, retryCount |-> 0, priority |-> 0]

\* values of the slot that this program did not write: text that JSON.parse
\* rejects, JSON that is not an array, and an array of things that are not
\* tasks (kind "array" is the one kind that has a forEach)
CorruptData ==
    {[kind |-> "unparsable", items |-> <<>>],
     [kind |-> "object", items |-> <<>>],
     [kind |-> "array", items |-> <<NotATask>>]}

\* the slot is removed or overwritten from outside the manager
SlotOverwritten(data) ==
    /\ store' = data
    /\ last' = NoCall
    /\ shown' = NoAlert
    /\ UNCHANGED <<queue, tasks, quota, isRunning, isPaused, currentTaskIndex, procs,
                   nextId, calls, hist>>

\* the manager over a slot that may hold anything
NextLoad ==
    \/ \E type \in {"generation"}, params \in {NoParams}, priority \in {0} :
          AddTask(type, params, priority)
    \/ RunAll
    \/ \E p \in Procs, ok \in BOOLEAN : ExecutorSettles(p, ok)
    \/ \E p \in Procs : BackoffElapsed(p)
    \/ \E p \in Procs : DelayElapsed(p)
    \/ \E data \in CorruptData \cup {NoData} : SlotOverwritten(data)
    \/ Reload

SpecLoad == Init /\ [][NextLoad]_vars

\* the stored value is a list of tasks
IsTaskList(st) ==
    /\ st.kind = "array"
    /\ \A k \in 1..Len(st.items) :
          st.items[k].status \in {"pending", "processing", "completed", "failed"}

\* C24. Load never fails: a manager built when the slot is missing,
\* unparsable or holds a value that is not a list of tasks has an empty
\* list and is idle: isRunning and isPaused false, currentTaskIndex idle.
C24_LoadNeverFails ==
    [][(last'.op = "reload" /\ ~IsTaskList(store)) =>
          /\ queue' = <<>>
          /\ ~isRunning'
          /\ ~isPaused'
          /\ currentTaskIndex' = IdleIndex]_vars

\* C25. Result only when completed: in every reachable state a task that
\* has a result has status completed, whatever runAll and runTask calls
\* were made.
C25_ResultOnlyCompleted ==
    \A r \in Range(queue) : tasks[r].result # "null" => tasks[r].status = "completed"

\* the task r is between two attempts: a call waits to retry it
MidRetry(r) == \E p \in Procs : procs[p].pc = "backoff" /\ procs[p].task = r

C27_RunAllIdempotent ==
    /\ [](Cardinality(Sweeping) <= 1)
    /\ [][(last'.op = "runAll" /\ isRunning) =>
             /\ InFlight' = InFlight
             /\ UNCHANGED <<queue, tasks, store, isRunning, isPaused, currentTaskIndex,
                            procs>>]_vars

\* runAll() was just called while a sweep sleeps between two tasks
C27_Witness ==
    /\ last.op = "runAll"
    /\ isRunning
    /\ \E p \in Procs : procs[p].kind = "runAll" /\ procs[p].pc = "delay"

\* the priorities given to addTask
Priorities == {0, 1}

\* the manager when the tasks are added with priorities
NextPriority ==
    \/ \E type \in {"generation"}, params \in {NoParams}, priority \in Priorities :
          AddTask(type, params, priority)
    \/ RunAll
    \/ \E p \in Procs, ok \in BOOLEAN : ExecutorSettles(p, ok)
    \/ \E p \in Procs : BackoffElapsed(p)
    \/ \E p \in Procs : DelayElapsed(p)

SpecPriority == Init /\ [][NextPriority]_vars

\* the tasks as they are when all are added with the same priority
SamePriority(ts) == [r \in DOMAIN ts |-> [ts[r] EXCEPT !.priority = 0]]

\* from any index of the list, the loop of runAll picks the same task and
\* leaves the same objects whether the priorities are those given or all
\* the same
PriorityBlind ==
    \A j \in 0..Len(queue) :
        LET a == SweepFrom(queue, tasks, store, FALSE, j, IdleIndex)
            b == SweepFrom(queue, SamePriority(tasks), store, FALSE, j, IdleIndex)
        IN  /\ a.pc = b.pc
            /\ a.i = b.i
            /\ a.task = b.task
            /\ SamePriority(a.tasks) = b.tasks

\* C28. Priority is advisory only: whatever priorities are given to
\* addTask, the list is in the order of the addTask calls, the loop of
\* runAll picks the task it would pick were all priorities the same, and
\* each task a sweep passes to the Executor is the first eligible one after
\* the one it passed before: the order of the Executor invocations and the
\* statuses depend on the list order alone.
C28_PriorityAdvisory ==
    /\ [](InsertionOrder /\ PriorityBlind)
    /\ [][\A p \in Procs : OrderStep(p)]_vars

\* the sweep has completed a task of lower priority before the task of
\* higher priority it executes now
C28_Witness ==
    /\ Len(queue) >= 2
    /\ tasks[queue[1]].priority < tasks[queue[2]].priority
    /\ tasks[queue[1]].status = "completed"
    /\ tasks[queue[2]].status = "processing"
    /\ \E p \in Procs : procs[p] = [kind |-> "runAll", pc |-> "exec", i |-> 1,
                                     task |-> queue[2]]

\* the manager when stopQueue, clearQueue and importQueue are never called
NextNoStop ==
    \/ \E type \in {"generation"}, params \in {NoParams}, priority \in {0} :
          AddTask(type, params, priority)
    \/ \E taskId \in TaskIds : RemoveTask(taskId)
    \/ \E fromIndex, toIndex \in 0..(MaxTasks - 1) : Drop(fromIndex, toIndex)
    \/ RunAll
    \/ \E taskId \in TaskIds : RunTask(taskId)
    \/ PauseQueue
    \/ ResumeQueue
    \/ \E p \in Procs, ok \in BOOLEAN : ExecutorSettles(p, ok)
    \/ \E p \in Procs : BackoffElapsed(p)
    \/ \E p \in Procs : DelayElapsed(p)
    \/ Reload

SpecNoStop == Init /\ [][NextNoStop]_vars

\* the calls of runAll and runTask that have not returned
Pending == {p \in Procs : procs[p].kind # "none"}

\* C29. Single worker without stop: when stopQueue, clearQueue and
\* importQueue are never called, in every reachable state at most one call
\* of runAll or runTask is in progress, at most one Executor invocation is
\* in flight and at most one task is processing, whenever runAll, runTask,
\* pauseQueue and resumeQueue are called.
C29_SingleWorkerNoStop ==
    /\ Cardinality(Pending) <= 1
    /\ Cardinality(InFlight) <= 1
    /\ Cardinality(Processing) <= 1
    /\ isRunning <=> Pending # {}

\* resumeQueue() was just called on a paused queue whose sweep is still in
\* the executor call it was in when paused
C29_Witness ==
    /\ hist.resumed
    /\ isRunning
    /\ ~isPaused
    /\ \E p \in Procs : procs[p].kind = "runAll" /\ procs[p].pc = "exec"

\* the manager when tasks are removed and the queue is never paused or
\* stopped
NextRemoval ==
    \/ \E type \in {"generation"}, params \in {NoParams}, priority \in {0} :
          AddTask(type, params, priority)
    \/ \E taskId \in TaskIds : RemoveTask(taskId)
    \/ RunAll
    \/ \E p \in Procs, ok \in BOOLEAN : ExecutorSettles(p, ok)
    \/ \E p \in Procs : BackoffElapsed(p)
    \/ \E p \in Procs : DelayElapsed(p)

SpecRemoval == Init /\ [][NextRemoval]_vars

\* C30. Removal during a sweep skips nothing: when a sweep that was never
\* paused or stopped ends and isRunning becomes false, no task of the list
\* is pending, even if tasks were removed while the sweep was in progress.
C30_RemovalSkipsNothing ==
    [][(SweepEnds /\ isRunning /\ ~isRunning') =>
          \A r \in Range(queue') : tasks'[r].status # "pending"]_vars

\* the call p invokes the Executor in this step: for a task it picks, or
\* again for its task after the backoff
Invokes(p) ==
    /\ procs'[p].pc = "exec"
    /\ procs[p].pc # "exec" \/ procs'[p].task # procs[p].task

\* C31. Executors run only for listed tasks: every Executor invocation, the
\* retries after a backoff included, is for a task that is in the list when
\* the invocation is made.
C31_ExecutesListedOnly ==
    [][\A p \in Procs : Invokes(p) => procs'[p].task \in Range(queue')]_vars

\* C32. Retries are task-local and block the queue: a sweep invokes the
\* Executor of another task only from its sleep after a task that is
\* completed or failed, and a sweep in the backoff of a task does nothing
\* but invoke the Executor of that task again; no other task is processing
\* meanwhile.
C32_RetryBlocksSweep ==
    [][\A p \in Procs :
          /\ (procs[p].kind = "runAll" /\ Picks(p)) =>
                /\ procs[p].pc = "delay"
                /\ Done(tasks[At(queue, procs[p].i)])
          /\ (procs[p].kind = "runAll" /\ procs[p].pc = "backoff"
                /\ last'.op # "reload") =>
                /\ \/ procs'[p] = procs[p]
                   \/ procs'[p] = [procs[p] EXCEPT !.pc = "exec"]
                /\ Processing' \subseteq {procs[p].task}]_vars

\* the sweep executes the second task after the first was completed by a
\* retry
C32_Witness ==
    /\ Len(queue) >= 2
    /\ tasks[queue[1]].status = "completed"
    /\ tasks[queue[1]].retryCount >= 1
    /\ tasks[queue[2]].status = "processing"
    /\ \E p \in Procs : procs[p] = [kind |-> "runAll", pc |-> "exec", i |-> 1,
                                     task |-> queue[2]]

\* the call p executes a task that had retryCount 0 when the call invoked
\* the Executor for it the first time
Fresh(p) == procs[p].task # 0 /\ hist.exec[p].n >= 1 /\ hist.exec[p].from = 0

\* during the execution of a fresh task the invocations made are one more
\* than the retries counted, and at most maxRetries + 1
AttemptsCounted ==
    \A p \in Procs :
        Fresh(p) =>
           /\ hist.exec[p].n <= maxRetries + 1
           /\ procs[p].pc = "exec" =>
                 tasks[procs[p].task].retryCount = hist.exec[p].n - 1
           /\ procs[p].pc = "backoff" =>
                 tasks[procs[p].task].retryCount = hist.exec[p].n

\* C33. Attempt count: one execution of a task of retryCount 0 invokes the
\* Executor at most maxRetries + 1 = 4 times. When the k-th invocation
\* succeeds the task is completed with retryCount k - 1 and the execution
\* is over; when an invocation fails, another follows if fewer than 4 were
\* made, and after the fourth the task is failed and the execution is over.
C33_AttemptCount ==
    /\ []AttemptsCounted
    /\ [][\A p \in Procs :
             Fresh(p) =>
                /\ SucceedsIn(p) =>
                      /\ tasks'[procs[p].task].status = "completed"
                      /\ tasks'[procs[p].task].retryCount = hist.exec[p].n - 1
                      /\ procs'[p].task # procs[p].task
                /\ (FailsIn(p) /\ hist.exec[p].n < maxRetries + 1) =>
                      /\ procs'[p] = [procs[p] EXCEPT !.pc = "backoff"]
                      /\ tasks'[procs[p].task].status = "pending"
                /\ (FailsIn(p) /\ hist.exec[p].n >= maxRetries + 1) =>
                      /\ hist.exec[p].n = maxRetries + 1
                      /\ tasks'[procs[p].task].status = "failed"
                      /\ procs'[p].task # procs[p].task
                /\ (procs[p].pc = "backoff" /\ procs'[p].pc = "exec") =>
                      hist'.exec[p].n = hist.exec[p].n + 1]_vars

\* a task has failed for good and the sweep is in its second invocation of
\* the Executor for the next task
C33_Witness ==
    /\ Len(queue) >= 2
    /\ tasks[queue[1]].status = "failed"
    /\ tasks[queue[1]].retryCount = maxRetries
    /\ \E p \in Procs :
          /\ procs[p] = [kind |-> "runAll", pc |-> "exec", i |-> 1, task |-> queue[2]]
          /\ hist.exec[p] = [n |-> 2, from |-> 0]

\* the manager when the queue is stopped while it runs
NextStop ==
    \/ \E type \in {"generation"}, params \in {NoParams}, priority \in {0} :
          AddTask(type, params, priority)
    \/ RunAll
    \/ StopQueue
    \/ \E p \in Procs, ok \in BOOLEAN : ExecutorSettles(p, ok)
    \/ \E p \in Procs : BackoffElapsed(p)
    \/ \E p \in Procs : DelayElapsed(p)

SpecStop == Init /\ [][NextStop]_vars

\* the task r of the list is stored with the status s
StoredAs(r, s) ==
    /\ store'.kind = "array"
    /\ Len(store'.items) = Len(queue')
    /\ \A k \in 1..Len(queue') : queue'[k] = r => store'.items[k].status = s

\* C34. Late result after stop is accepted: when the Executor settles for
\* a task while isRunning is false, stopQueue() having been called during
\* the execution, a success makes the task completed and a failure with no
\* retry left makes it failed, in the list and in the store; a failure
\* with retries left is followed by the backoff and the retry of the task.
C34_LateResultAccepted ==
    [][\A p \in Procs :
          (procs[p].kind = "runAll" /\ ~isRunning) =>
             /\ SucceedsIn(p) =>
                   /\ tasks'[procs[p].task].status = "completed"
                   /\ procs[p].task \in Range(queue')
                   /\ StoredAs(procs[p].task, "completed")
             /\ FailsForGood(p) =>
                   /\ tasks'[procs[p].task].status = "failed"
                   /\ procs[p].task \in Range(queue')
                   /\ StoredAs(procs[p].task, "failed")
             /\ (FailsIn(p) /\ ~Exhausted(tasks[procs[p].task])) =>
                   procs'[p] = [procs[p] EXCEPT !.pc = "backoff"]
             /\ (procs[p].pc = "backoff" /\ procs'[p] # procs[p]) =>
                   /\ procs'[p] = [procs[p] EXCEPT !.pc = "exec"]
                   /\ tasks'[procs[p].task].status = "processing"]_vars

\* the first task was being executed when stopQueue() was called and has
\* been completed since, in the list and in the store
C34_Witness ==
    /\ ~isRunning
    /\ Len(queue) >= 2
    /\ tasks[queue[1]].status = "completed"
    /\ store.kind = "array"
    /\ Len(store.items) >= 1
    /\ store.items[1].status = "completed"
    /\ \E p \in hist.stopped : procs[p].pc = "delay" /\ procs[p].i = 0

\* the manager when the queue is run, paused, resumed and stopped
NextLive ==
    \/ \E type \in {"generation"}, params \in {NoParams}, priority \in {0} :
          AddTask(type, params, priority)
    \/ RunAll
    \/ PauseQueue
    \/ ResumeQueue
    \/ StopQueue
    \/ \E p \in Procs, ok \in BOOLEAN : ExecutorSettles(p, ok)
    \/ \E p \in Procs : BackoffElapsed(p)
    \/ \E p \in Procs : DelayElapsed(p)

\* every Executor call settles and every timer fires
Fairness ==
    \A p \in Procs :
        /\ WF_vars(\E ok \in BOOLEAN : ExecutorSettles(p, ok))
        /\ WF_vars(BackoffElapsed(p))
        /\ WF_vars(DelayElapsed(p))

SpecLive == Init /\ [][NextLive]_vars /\ Fairness

\* the sweep p ends in this step
Ends(p) == procs[p].kind = "runAll" /\ procs'[p].kind = "none"

\* C35. Sweep termination: when every Executor call settles and every
\* timer fires, the tasks added being finitely many, every sweep started by
\* runAll ends; at its end isRunning is false, currentTaskIndex is -1 and
\* the summary is shown, and a summary is shown at no other step.
C35_SweepTerminates ==
    /\ \A p \in Procs : (procs[p].kind = "runAll") ~> (procs[p].kind = "none")
    /\ [][/\ \A p \in Procs :
               Ends(p) =>
                  /\ ~isRunning'
                  /\ currentTaskIndex' = IdleIndex
                  /\ shown'.kind = "summary"
          /\ shown'.kind = "summary" => \E p \in Procs : Ends(p)]_vars

\* a sweep has just ended on seeing the pause, before a task it had not
\* executed
C35_Witness ==
    /\ hist.observed
    /\ shown.kind = "summary"
    /\ ~isRunning
    /\ currentTaskIndex = IdleIndex
    /\ \E r \in Range(queue) : tasks[r].status = "pending"

\* C36. Idle index invariant: in every reachable state, when isRunning is
\* false currentTaskIndex is -1, also after stopQueue() was called during a
\* sweep and the task in flight has settled.
C36_IdleIndex == ~isRunning => currentTaskIndex = IdleIndex

\* every task of the list that is completed or failed is stored, at its
\* place, with that status
TerminalStored ==
    \A k \in 1..Len(queue) :
        Done(tasks[queue[k]]) =>
           /\ store.kind = "array"
           /\ k <= Len(store.items)
           /\ store.items[k].id = tasks[queue[k]].id
           /\ store.items[k].status = tasks[queue[k]].status

\* C37. Terminal outcomes are durable: the writes to the store succeeding,
\* in every reachable state each task of the list that is completed or
\* failed has that status in the stored list, and a reload leaves every
\* completed task completed and every failed task failed.
C37_TerminalDurable ==
    /\ []TerminalStored
    /\ [][last'.op = "reload" =>
             \A r \in Range(queue) :
                 Done(tasks[r]) =>
                    /\ r \in Range(queue')
                    /\ tasks'[r].status = tasks[r].status]_vars

\* a manager just reloaded holds the task that was completed and the task
\* that had failed before the reload
C37_Witness ==
    /\ last.op = "reload"
    /\ Len(queue) >= 2
    /\ tasks[queue[1]].status = "completed"
    /\ tasks[queue[2]].status = "failed"

\* the store is written in this step
Saves == store' # store

\* C38. Saving does not touch live tasks: a step that writes the store
\* changes, of the tasks in memory, only what the operation itself changes
\* (status, result, error, retryCount of the task executed); the params of
\* every task, its referenceImage and productImage included, are after the
\* write what they were before, so that in a session every Executor
\* invocation is for a task that has the files it was added with.
C38_SaveLeavesTasks ==
    [][last'.op # "reload" =>
          /\ \A r \in DOMAIN tasks \cap DOMAIN tasks' :
                /\ tasks'[r].params = tasks[r].params
                /\ tasks'[r].id = tasks[r].id
                /\ tasks'[r].type = tasks[r].type
                /\ tasks'[r].priority = tasks[r].priority
          /\ (Saves /\ last'.op \in {"addTask", "removeTask"}) =>
                \A r \in DOMAIN tasks \cap DOMAIN tasks' : tasks'[r] = tasks[r]]_vars

\* the list was saved three times since the second task was added with its
\* two files, and the sweep now executes it with both
C38_Witness ==
    /\ Len(queue) = 3
    /\ tasks[queue[1]].status = "completed"
    /\ tasks[queue[2]].status = "processing"
    /\ tasks[queue[2]].params.referenceImage = "file"
    /\ tasks[queue[2]].params.productImage = "file"
    /\ store.kind = "array"
    /\ Len(store.items) = 3
    /\ store.items[1].status = "completed"
    /\ store.items[2].params.referenceImage = NoFile
    /\ \E p \in Procs : procs[p] = [kind |-> "runAll", pc |-> "exec", i |-> 1,
                                     task |-> queue[2]]

\* no element of the list is undefined
Intact == Undefined \notin Range(queue)

\* reorderTask applied to the lists addTask builds, with any two indexes
\* from one before the first to one after the last. A list that holds an
\* undefined element is left alone: the operations on it are not modelled
NextPermute ==
    \/ \E type \in {"generation"}, params \in {NoParams}, priority \in {0} :
          Intact /\ AddTask(type, params, priority)
    \/ \E fromIndex, toIndex \in (-1)..MaxTasks :
          Intact /\ ReorderTask(fromIndex, toIndex)

SpecPermute == Init /\ [][NextPermute]_vars

\* i is an index of the list
InBounds(i) == i \in 0..(Len(queue) - 1)

\* C39. Reorder is a permutation: reorderTask(fromIndex, toIndex) leaves
\* every task as it is; with both indexes in the bounds of the list the
\* task that was at fromIndex is at toIndex, the others keep their order,
\* and the list is unchanged when the indexes are equal; with an index
\* outside the bounds the list has the same elements as before, none
\* added, dropped or replaced.
C39_ReorderPermutes ==
    [][last'.op = "reorderTask" =>
          /\ tasks' = tasks
          /\ (InBounds(last'.a) /\ InBounds(last'.b)) =>
                /\ At(queue', last'.b) = At(queue, last'.a)
                /\ Without(queue', At(queue, last'.a)) = Without(queue, At(queue, last'.a))
                /\ Len(queue') = Len(queue)
                /\ last'.a = last'.b => queue' = queue
          /\ ~(InBounds(last'.a) /\ InBounds(last'.b)) =>
                /\ Len(queue') = Len(queue)
                /\ Range(queue') = Range(queue)]_vars
====
